---- MODULE Spec2Model ----
(***************************************************************************)
(* Model of otlp/attributes/store.rs: AttributeStore<T>, its construction  *)
(* from a record batch (TryFrom<&RecordBatch>), the two lookup operations  *)
(* and Vec<KeyValue>::find_or_append.                                      *)
(*                                                                         *)
(* An Option<X> is a sequence of length at most one: None is <<>> and      *)
(* Some(x) is <<x>>.  A parent id of type T is a tuple of 16-bit limbs,    *)
(* least significant first: <<v>> for u16 and <<lo, hi>> for u32.  Every   *)
(* payload is a string, so that values of different types can be compared. *)
(***************************************************************************)
EXTENDS Integers, Sequences, FiniteSets, TLC

VARIABLES
    T,                  \* "u16" or "u32": the instantiation of AttributeStore<T>
    rb,                 \* the record batch handed to try_from: [cols, rows]
    pc,                 \* "start", "loop", "ok", "err", "panic"
    idx,                \* the row index of the for loop (1-based)
    store,              \* the AttributeStore: [last_id, attribute_by_ids]
    parent_id_decoder,  \* the decoder created by T::new_decoder()
    result,             \* what try_from returned: None, Some(Ok(store)) or Some(Err(e))
    calls,              \* history: the calls made to parent_id_decoder.decode
    lookups,            \* history: the lookup calls made on the returned store
    other               \* a second try_from running at the same time, or None

vars == <<T, rb, pc, idx, store, parent_id_decoder, result, calls, lookups, other>>

----------------------------------------------------------------------------
(* Bounds of the model. *)

MaxRows == 3

MaxLookups == 3

\* rows of the batches that go through the kinds of cell a row can have, and
\* of the batches of two decodes that run at the same time
MaxCellRows == 2

----------------------------------------------------------------------------
(* Option<X>. *)

None == <<>>

Some(x) == <<x>>

unwrap_or(o, d) == IF o = None THEN d ELSE o[1]

----------------------------------------------------------------------------
(* The parent id type T: u16 or u32, as 16-bit limbs. *)

Limb == 65536

IdTypes == {"u16", "u32"}

Zero(t) == IF t = "u16" THEN <<0>> ELSE <<0, 0>>

MaxId(t) == IF t = "u16" THEN <<Limb - 1>> ELSE <<Limb - 1, Limb - 1>>

Id(t, n) == IF t = "u16" THEN <<n>> ELSE <<n, 0>>

\* a + b overflows T
Overflows(a, b) ==
    IF Len(a) = 1
    THEN a[1] + b[1] >= Limb
    ELSE a[2] + b[2] + (IF a[1] + b[1] >= Limb THEN 1 ELSE 0) >= Limb

\* a + b modulo 2^16 (u16) or 2^32 (u32)
WrappingAdd(a, b) ==
    IF Len(a) = 1
    THEN <<(a[1] + b[1]) % Limb>>
    ELSE <<(a[1] + b[1]) % Limb,
           (a[2] + b[2] + (IF a[1] + b[1] >= Limb THEN 1 ELSE 0)) % Limb>>

----------------------------------------------------------------------------
(* Result<X, error::Error> and the errors try_from returns. *)

Ok(x) == [ok |-> TRUE, v |-> x]

Err(e) == [ok |-> FALSE, v |-> e]

UnrecognizedAttributeValueType(byte) ==
    [error |-> "UnrecognizedAttributeValueType", arg |-> ToString(byte)]

ColumnNotFound(name) == [error |-> "ColumnNotFound", arg |-> name]

MalformedColumn(name) == [error |-> "MalformedColumn", arg |-> name]

CborDecodeError(bytes) == [error |-> "CborDecodeError", arg |-> bytes]

----------------------------------------------------------------------------
(* AttributeValueType and its derived TryFrom<u8>. *)

\* the largest value of the u8 the type tag is read as
MaxByte == 255

AttributeValueType ==
    (0 :> "Empty") @@ (1 :> "Str") @@ (2 :> "Int") @@ (3 :> "Double") @@
    (4 :> "Bool") @@ (5 :> "Map") @@ (6 :> "Slice") @@ (7 :> "Bytes")

\* faulty variant: an unknown byte defaults to Empty
try_from_or_empty(byte) ==
    IF byte \in DOMAIN AttributeValueType THEN Ok(AttributeValueType[byte]) ELSE Ok("Empty")

\* faulty variant: only the three low bits of the byte are looked at
try_from_low_bits(byte) == Ok(AttributeValueType[byte % 8])

AttributeValueType_try_from(byte) ==
    IF byte \in DOMAIN AttributeValueType
    THEN Ok(AttributeValueType[byte])
    ELSE Err(UnrecognizedAttributeValueType(byte))

----------------------------------------------------------------------------
(* any_value::Value, AnyValue and KeyValue. *)

StringValue(s) == [t |-> "StringValue", v |-> s]

IntValue(i) == [t |-> "IntValue", v |-> i]

DoubleValue(d) == [t |-> "DoubleValue", v |-> d]

BoolValue(b) == [t |-> "BoolValue", v |-> b]

BytesValue(b) == [t |-> "BytesValue", v |-> b]

StructuredValue(bytes) == [t |-> "StructuredValue", v |-> bytes]

AnyValue(value) == [value |-> value]

KeyValue(key, value) == [key |-> key, value |-> value]

----------------------------------------------------------------------------
(* The record batch: the shape of each column and the cells of each row.   *)

ValueColumns == {"str", "int", "double", "bool", "bytes", "ser"}

Columns == {"key", "type", "parent_id"} \cup ValueColumns

\* rb.column_by_name(name) is None
ColumnAbsent(b, name) == b.cols[name] = "absent"

\* the cell of column name at row i; an accessor over an absent column
\* (Option<accessor> = None) yields None for every row
value_at(b, name, i) ==
    IF ColumnAbsent(b, name) THEN None ELSE b.rows[i][name]

\* the columns try_from opens before the loop, in the order it opens them
OpenedColumns == <<"key", "type", "str", "int", "double", "bool", "bytes", "ser">>

\* the columns get_u8_array (line 81) and try_new_for_column (line 83) fail
\* on when the batch has no such column: none, an absent column reads as
\* null in every row and only the parent id column, looked up in the loop,
\* is mandatory
MandatoryAtOpen == {}

\* faulty variant: the parent id column is looked up with the other columns,
\* before the loop
OpenError_with_parent_id(b) ==
    LET columns == Append(OpenedColumns, "parent_id")
        bad     == {n \in 1..Len(columns) : b.cols[columns[n]] \in {"malformed", "absent"}
                                             /\ (b.cols[columns[n]] = "absent" => columns[n] = "parent_id")}
        first   == columns[CHOOSE n \in bad : \A m \in bad : n <= m]
    IN  IF bad = {} THEN None
        ELSE IF b.cols[first] = "absent" THEN Some(ColumnNotFound(first))
        ELSE Some(MalformedColumn(first))

\* the error of the first accessor that cannot be built, if any
OpenError(b) ==
    LET bad == {n \in 1..Len(OpenedColumns) :
                    \/ b.cols[OpenedColumns[n]] = "malformed"
                    \/ b.cols[OpenedColumns[n]] = "absent" /\ OpenedColumns[n] \in MandatoryAtOpen}
        first == OpenedColumns[CHOOSE n \in bad : \A m \in bad : n <= m]
    IN  IF bad = {} THEN None
        ELSE IF b.cols[first] = "absent" THEN Some(ColumnNotFound(first))
        ELSE Some(MalformedColumn(first))

\* cbor::decode_pcommon_val; an empty payload is no value
decode_pcommon_val(bytes) ==
    CASE bytes = "cbor:malformed" -> Err(CborDecodeError(bytes))
      [] bytes = "cbor:null"      -> Ok(None)
      [] bytes = ""               -> Ok(None)
      [] OTHER                    -> Ok(Some(StructuredValue(bytes)))

----------------------------------------------------------------------------
(* One iteration of the loop up to the value: lines 102-135. *)

Skip == [kind |-> "skip", v |-> None]

Fatal(e) == [kind |-> "err", v |-> e]

Produced(value) == [kind |-> "value", v |-> value]

key_of(b, i) == unwrap_or(value_at(b, "key", i), "")

\* faulty variant: a null type cell is read as a byte that is no value type
value_type_of_null_invalid(b, i) ==
    AttributeValueType_try_from(unwrap_or(value_at(b, "type", i), MaxByte))

value_type_of(b, i) == AttributeValueType_try_from(unwrap_or(value_at(b, "type", i), 0))

\* faulty variant: a payload the decoder rejects is skipped like an absent one
StructuredOutcome_swallow(b, i) ==
    LET bytes == value_at(b, "ser", i)
    IN  IF bytes = None THEN Skip
        ELSE LET decoded_result == decode_pcommon_val(bytes[1])
             IN  IF ~decoded_result.ok \/ decoded_result.v = None THEN Skip
                 ELSE Produced(decoded_result.v[1])

\* faulty variant: a Map or Slice row without a payload cell fails the decode
StructuredOutcome_absent_fails(b, i) ==
    LET bytes == value_at(b, "ser", i)
    IN  IF bytes = None THEN Fatal(CborDecodeError(""))
        ELSE LET decoded_result == decode_pcommon_val(bytes[1])
             IN  IF ~decoded_result.ok THEN Fatal(decoded_result.v)
                 ELSE IF decoded_result.v = None THEN Skip
                 ELSE Produced(decoded_result.v[1])

StructuredOutcome(b, i) ==
    LET bytes == value_at(b, "ser", i)
    IN  IF bytes = None THEN Skip
        ELSE LET decoded_result == decode_pcommon_val(bytes[1])
             IN  IF ~decoded_result.ok THEN Fatal(decoded_result.v)
                 ELSE IF decoded_result.v = None THEN Skip
                 ELSE Produced(decoded_result.v[1])

\* faulty variant: a scalar row whose payload cell is null is skipped
RowOutcome_null_skips(b, i) ==
    LET value_type == value_type_of(b, i)
        cell(name) == value_at(b, name, i)
    IN  IF ~value_type.ok THEN Fatal(value_type.v)
        ELSE CASE value_type.v = "Str"    -> IF cell("str") = None THEN Skip ELSE Produced(StringValue(cell("str")[1]))
               [] value_type.v = "Int"    -> IF cell("int") = None THEN Skip ELSE Produced(IntValue(cell("int")[1]))
               [] value_type.v = "Double" -> IF cell("double") = None THEN Skip ELSE Produced(DoubleValue(cell("double")[1]))
               [] value_type.v = "Bool"   -> IF cell("bool") = None THEN Skip ELSE Produced(BoolValue(cell("bool")[1]))
               [] value_type.v = "Bytes"  -> IF cell("bytes") = None THEN Skip ELSE Produced(BytesValue(cell("bytes")[1]))
               [] value_type.v \in {"Slice", "Map"} -> StructuredOutcome(b, i)
               [] value_type.v = "Empty"  -> Skip

RowOutcome(b, i) ==
    LET value_type == value_type_of(b, i)
    IN  IF ~value_type.ok THEN Fatal(value_type.v)
        ELSE CASE value_type.v = "Str"    -> Produced(StringValue(unwrap_or(value_at(b, "str", i), "")))
               [] value_type.v = "Int"    -> Produced(IntValue(unwrap_or(value_at(b, "int", i), "0")))
               [] value_type.v = "Double" -> Produced(DoubleValue(unwrap_or(value_at(b, "double", i), "0.0")))
               [] value_type.v = "Bool"   -> Produced(BoolValue(unwrap_or(value_at(b, "bool", i), "false")))
               [] value_type.v = "Bytes"  -> Produced(BytesValue(unwrap_or(value_at(b, "bytes", i), "")))
               [] value_type.v \in {"Slice", "Map"} -> StructuredOutcome(b, i)
               [] value_type.v = "Empty"  -> Skip

----------------------------------------------------------------------------
(* The parent id of a row: lines 138-152. *)

\* rb.column_by_name(PARENT_ID) and MaybeDictArrayAccessor::try_new
ParentIdColumnError(b) ==
    CASE b.cols["parent_id"] = "absent"    -> Some(ColumnNotFound("parent_id"))
      [] b.cols["parent_id"] = "malformed" -> Some(MalformedColumn("parent_id"))
      [] OTHER                             -> None

\* MaybeDictArrayAccessor::value_at: the cell of a plain column; of a
\* dictionary-encoded column, the entry of the value table that the key in the
\* cell selects (keys count from 0)
materialized(b, i) ==
    LET cell == b.rows[i]["parent_id"]
    IN  IF b.cols["parent_id"] = "dict" /\ cell # None
        THEN Some(b.dict[cell[1] + 1])
        ELSE cell

\* faulty variant: the column is read as a plain array, so that the key of a
\* dictionary-encoded cell is taken for the parent id
parent_id_field_keys(t, b, i) ==
    LET cell == b.rows[i]["parent_id"]
    IN  IF b.cols["parent_id"] = "dict" /\ cell # None
        THEN Id(t, cell[1])
        ELSE unwrap_or(cell, Zero(t))

\* parent_id_arr.value_at_or_default(idx).into()
parent_id_field(t, b, i) == unwrap_or(materialized(b, i), Zero(t))

\* T::new_decoder()
new_decoder(t) == [prev_key |-> None, prev_value |-> None, prev_parent_id |-> Zero(t)]

\* the parent id decode returns: the field is a delta to the previous parent
\* id while key and value repeat, and the parent id itself otherwise
decode(d, delta_or_parent_id, key, value) ==
    IF d.prev_key = Some(key) /\ d.prev_value = Some(value)
    THEN WrappingAdd(d.prev_parent_id, delta_or_parent_id)
    ELSE delta_or_parent_id

\* the decoder after that call
decoded(d, delta_or_parent_id, key, value) ==
    [prev_key |-> Some(key), prev_value |-> Some(value),
     prev_parent_id |-> decode(d, delta_or_parent_id, key, value)]

----------------------------------------------------------------------------
(* Vec<KeyValue>::find_or_append and the store's bucket map. *)

\* faulty variant: only the last entry is compared with the key
Found_last_only(vec, key) == {n \in 1..Len(vec) : n = Len(vec) /\ vec[n].key = key}

\* the positions of the entries of vec with key key
Found(vec, key) == {n \in 1..Len(vec) : vec[n].key = key}

\* the vector after find_or_append
find_or_append_vec(vec, key) ==
    IF Found(vec, key) # {} THEN vec ELSE Append(vec, KeyValue(key, None))

\* the position of the slot find_or_append returns a reference to
find_or_append_slot(vec, key) ==
    IF Found(vec, key) # {}
    THEN CHOOSE n \in Found(vec, key) : \A m \in Found(vec, key) : n <= m
    ELSE Len(vec) + 1

\* store.attribute_by_ids.entry(parent_id).or_default()
or_default(attribute_by_ids, parent_id) ==
    IF parent_id \in DOMAIN attribute_by_ids
    THEN attribute_by_ids
    ELSE attribute_by_ids @@ (parent_id :> <<>>)

\* faulty variant: the value is assigned to an entry that was found only, and
\* an appended entry keeps its empty value
insert_found_only(attribute_by_ids, parent_id, key, value) ==
    LET m    == or_default(attribute_by_ids, parent_id)
        vec  == find_or_append_vec(m[parent_id], key)
        slot == find_or_append_slot(m[parent_id], key)
    IN  IF Found(m[parent_id], key) = {}
        THEN [m EXCEPT ![parent_id] = vec]
        ELSE [m EXCEPT ![parent_id] = [vec EXCEPT ![slot].value = Some(AnyValue(Some(value)))]]

\* faulty variant: an entry whose key repeats is removed and appended again
insert_moves_to_end(attribute_by_ids, parent_id, key, value) ==
    LET m    == or_default(attribute_by_ids, parent_id)
        rest == SelectSeq(m[parent_id], LAMBDA kv : kv.key # key)
    IN  [m EXCEPT ![parent_id] = Append(rest, KeyValue(key, Some(AnyValue(Some(value)))))]

\* *attributes.find_or_append(&key) = Some(AnyValue { value: Some(value) })
insert(attribute_by_ids, parent_id, key, value) ==
    LET m    == or_default(attribute_by_ids, parent_id)
        vec  == find_or_append_vec(m[parent_id], key)
        slot == find_or_append_slot(m[parent_id], key)
    IN  [m EXCEPT ![parent_id] = [vec EXCEPT ![slot].value = Some(AnyValue(Some(value)))]]

\* Self::default()
default_store(t) == [last_id |-> Zero(t), attribute_by_ids |-> <<>>]

\* self.attribute_by_ids.get(&id).map(|r| r.as_slice())
get(st, id) ==
    IF id \in DOMAIN st.attribute_by_ids THEN Some(st.attribute_by_ids[id]) ELSE None

----------------------------------------------------------------------------
(* The batches, deltas and ids the model is run on. *)

Cell(t, column, x, pid) ==
    [c \in Columns |->
        CASE c = "type"      -> Some(t)
          [] c = "key"       -> Some(x.key)
          [] c = "parent_id" -> Some(pid)
          [] c = column      -> x.cell
          [] OTHER           -> None]

\* rows of a writer that fills only the payload column the type tag selects
Rows(t) ==
    {Cell(1, "str", [key |-> k, cell |-> Some("bar")], Id(t, n)) : k \in {"foo", "k2"}, n \in {0, 1}}
    \cup {Cell(2, "int", [key |-> "foo", cell |-> Some("5")], Id(t, 0))}
    \cup {Cell(0, "none", [key |-> "foo", cell |-> None], Id(t, 1))}
    \cup {Cell(6, "ser", [key |-> "k2", cell |-> c], Id(t, 1)) :
            c \in {None, Some("cbor:null"), Some("cbor:malformed")}}
    \cup {Cell(5, "ser", [key |-> "k2", cell |-> Some("cbor:{}")], Id(t, 1))}
    \cup {Cell(byte, "none", [key |-> "foo", cell |-> None], Id(t, 0)) : byte \in {8, 99}}

\* the rows of the batches the lookups are run on
FewRows(t) ==
    {Cell(1, "str", [key |-> "foo", cell |-> Some("bar")], Id(t, n)) : n \in {0, 1}}
    \cup {Cell(0, "none", [key |-> "foo", cell |-> None], Id(t, 1))}
    \cup {Cell(99, "none", [key |-> "foo", cell |-> None], Id(t, 0))}

WellFormed == [c \in Columns |-> "plain"]

Shapes ==
    {WellFormed,
     [WellFormed EXCEPT !["parent_id"] = "absent"],
     [WellFormed EXCEPT !["parent_id"] = "malformed"],
     [WellFormed EXCEPT !["bool"] = "malformed"]}

SeqsUpTo(S, n) == UNION {[1..m -> S] : m \in 0..n}

Batches(R) == {[cols |-> c, rows |-> r] : c \in Shapes, r \in SeqsUpTo(R, MaxRows)}

\* a row with the given cells, null in every other column
Row(type, key, column, cell, pid) ==
    [c \in Columns |->
        CASE c = "type"      -> type
          [] c = "key"       -> key
          [] c = "parent_id" -> pid
          [] c = column      -> cell
          [] OTHER           -> None]

\* the payload column of each scalar type tag, and a payload for it
ScalarColumn == (1 :> "str") @@ (2 :> "int") @@ (3 :> "double") @@ (4 :> "bool") @@ (7 :> "bytes")

ScalarPayload == (1 :> "bar") @@ (2 :> "5") @@ (3 :> "1.5") @@ (4 :> "true") @@ (7 :> "ab")

\* rows of every scalar type with a payload and with a null payload cell, a
\* row with a null key, rows with an Empty, a null and an unknown type tag
NullRows(t) ==
    {Row(Some(tag), Some("foo"), ScalarColumn[tag], cell, Some(Id(t, 0))) :
        tag \in DOMAIN ScalarColumn, cell \in {None}}
    \cup {Row(Some(tag), Some("foo"), ScalarColumn[tag], Some(ScalarPayload[tag]), Some(Id(t, 0))) :
        tag \in DOMAIN ScalarColumn}
    \cup {Row(Some(1), None, "str", None, Some(Id(t, 1)))}
    \cup {Row(type, Some("foo"), "none", None, Some(Id(t, 1))) : type \in {Some(0), None, Some(99)}}

\* batches without one of the optional columns, or without all of them
NullShapes ==
    {WellFormed}
    \cup {[WellFormed EXCEPT ![c] = "absent"] : c \in {"key", "str", "int", "double", "bool", "bytes", "parent_id"}}
    \cup {[c \in Columns |-> IF c \in {"type", "parent_id"} THEN "plain" ELSE "absent"]}
    \cup {[WellFormed EXCEPT !["bool"] = "malformed"]}

\* Map and Slice rows with each kind of serialized payload, and a Str row
StructuredRows(t) ==
    {Row(Some(tag), Some(k), "ser", cell, Some(Id(t, 1))) :
        tag \in {5, 6}, k \in {"foo"},
        cell \in {None, Some(""), Some("cbor:null"), Some("cbor:malformed"), Some("cbor:[1]")}}
    \cup {Row(Some(1), Some("foo"), "str", Some("bar"), Some(Id(t, 1)))}

StructuredShapes ==
    {WellFormed,
     [WellFormed EXCEPT !["ser"] = "absent"],
     [WellFormed EXCEPT !["ser"] = "malformed"],
     [WellFormed EXCEPT !["parent_id"] = "absent"]}

\* one row for every byte the type column can hold, each with a serialized
\* payload, so that a Map or Slice row has a value
TagRows(t) ==
    {Row(Some(byte), Some("foo"), "ser", Some("cbor:[1]"), Some(Id(t, 1))) : byte \in 0..MaxByte}

TagShapes ==
    {WellFormed,
     [WellFormed EXCEPT !["parent_id"] = "absent"],
     [WellFormed EXCEPT !["bool"] = "malformed"]}

\* the batches of one row
TagBatches(t) == {[cols |-> c, rows |-> <<r>>] : c \in TagShapes, r \in TagRows(t)}

\* rows whose parent id cell is null or a key into the value table of a
\* dictionary-encoded parent id column
DictRows ==
    {Row(Some(1), Some(k), "str", Some("bar"), cell) : k \in {"foo", "k2"}, cell \in {None, Some(0), Some(1)}}
    \cup {Row(Some(byte), Some("foo"), "none", None, Some(0)) : byte \in {0, 99}}

\* the value tables of the dictionary
DictTables(t) == {<<Id(t, 1), Id(t, 0)>>, <<Id(t, 2), Id(t, 1)>>}

DictShapes ==
    {[WellFormed EXCEPT !["parent_id"] = "dict"],
     [WellFormed EXCEPT !["parent_id"] = "malformed"],
     [WellFormed EXCEPT !["parent_id"] = "dict", !["bool"] = "malformed"]}

DictBatches(t) ==
    {[cols |-> c, rows |-> r, dict |-> d] :
        c \in DictShapes, r \in SeqsUpTo(DictRows, MaxRows), d \in DictTables(t)}

\* the rows of the batches of two decodes that run at the same time
TwoRows(t) ==
    {Row(Some(1), Some("foo"), "str", Some("bar"), Some(Id(t, 1))),
     Row(Some(0), Some("foo"), "none", None, Some(Id(t, 1))),
     Row(Some(99), Some("foo"), "none", None, Some(Id(t, 1)))}

OtherRows(t) ==
    {Row(Some(1), Some(k), "str", Some("bar"), Some(Id(t, 1))) : k \in {"foo", "k2"}}

BatchesOf(shapes, R, n) == {[cols |-> c, rows |-> r] : c \in shapes, r \in SeqsUpTo(R, n)}

Deltas(t) == {Id(t, 1), MaxId(t)}

Ids(t) == {Id(t, 0), Id(t, 1)}

----------------------------------------------------------------------------
(* try_from. *)

InitOver(batches) ==
    /\ rb \in batches
    /\ pc = "start"
    /\ idx = 1
    /\ store = None
    /\ parent_id_decoder = None
    /\ result = None
    /\ calls = <<>>
    /\ lookups = <<>>
    /\ other = None

Init == T \in IdTypes /\ InitOver(Batches(FewRows(T)))

InitDecode == T \in IdTypes /\ InitOver(Batches(Rows(T)))

InitNull == T \in IdTypes /\ InitOver(BatchesOf(NullShapes, NullRows(T), MaxCellRows))

InitTags == T \in IdTypes /\ InitOver(TagBatches(T))

InitDict == T \in IdTypes /\ InitOver(DictBatches(T))

InitStructured == T \in IdTypes /\ InitOver(BatchesOf(StructuredShapes, StructuredRows(T), MaxCellRows))

\* faulty variant: on an error the rows decoded so far are returned
Fail_returns_partial(e) ==
    /\ pc' = IF store = None THEN "err" ELSE "ok"
    /\ result' = IF store = None THEN Some(Err(e)) ELSE Some(Ok(store[1]))
    /\ store' = None
    /\ UNCHANGED <<T, rb, idx, parent_id_decoder, calls, lookups, other>>

\* `?`: the error is returned and the store under construction is dropped
Fail(e) ==
    /\ pc' = "err"
    /\ result' = Some(Err(e))
    /\ store' = None
    /\ UNCHANGED <<T, rb, idx, parent_id_decoder, calls, lookups, other>>

\* faulty variant: the bucket of the row is created before the row is skipped
Continue_with_bucket ==
    /\ idx' = idx + 1
    /\ store' = Some([store[1] EXCEPT !.attribute_by_ids = or_default(@, parent_id_field(T, rb, idx))])
    /\ UNCHANGED <<T, rb, pc, parent_id_decoder, result, calls, lookups, other>>

\* faulty variant: the parent id field of a skipped row is added to the
\* decoder's previous parent id
Continue_accumulates ==
    /\ idx' = idx + 1
    /\ parent_id_decoder' = Some([parent_id_decoder[1] EXCEPT
            !.prev_parent_id = WrappingAdd(@, parent_id_field(T, rb, idx))])
    /\ UNCHANGED <<T, rb, pc, store, result, calls, lookups, other>>

\* `continue`
Continue ==
    /\ idx' = idx + 1
    /\ UNCHANGED <<T, rb, pc, store, parent_id_decoder, result, calls, lookups, other>>

\* lines 75-99, an accessor cannot be built
OpenFails ==
    /\ pc = "start"
    /\ OpenError(rb) # None
    /\ Fail(OpenError(rb)[1])

\* lines 75-99
Open ==
    /\ pc = "start"
    /\ OpenError(rb) = None
    /\ pc' = "loop"
    /\ store' = Some(default_store(T))
    /\ parent_id_decoder' = Some(new_decoder(T))
    /\ UNCHANGED <<T, rb, idx, result, calls, lookups, other>>

InLoop == pc = "loop" /\ idx <= Len(rb.rows)

\* lines 103-104 and 125: the type tag or the payload is rejected
RowFails ==
    /\ InLoop
    /\ RowOutcome(rb, idx).kind = "err"
    /\ Fail(RowOutcome(rb, idx).v)

\* lines 122, 128 and 133
RowSkipped ==
    /\ InLoop
    /\ RowOutcome(rb, idx).kind = "skip"
    /\ Continue

\* lines 138-146: the row has a value and the parent id column cannot be read
RowWithoutParentId ==
    /\ InLoop
    /\ RowOutcome(rb, idx).kind = "value"
    /\ ParentIdColumnError(rb) # None
    /\ Fail(ParentIdColumnError(rb)[1])

\* faulty variant: a new decoder is made for every row
RowInserted_new_decoder ==
    /\ pc = "loop" /\ idx <= Len(rb.rows)
    /\ RowOutcome(rb, idx).kind = "value"
    /\ ParentIdColumnError(rb) = None
    /\ LET key       == key_of(rb, idx)
           value     == RowOutcome(rb, idx).v
           field     == parent_id_field(T, rb, idx)
           parent_id == decode(new_decoder(T), field, key, value)
       IN  /\ parent_id_decoder' = Some(decoded(new_decoder(T), field, key, value))
           /\ calls' = Append(calls, [idx |-> idx, field |-> field, key |-> key,
                                      value |-> value, parent_id |-> parent_id])
           /\ store' = Some([store[1] EXCEPT !.attribute_by_ids =
                                insert(store[1].attribute_by_ids, parent_id, key, value)])
    /\ idx' = idx + 1
    /\ UNCHANGED <<T, rb, pc, result, lookups, other>>

\* lines 148-155
RowInserted ==
    /\ InLoop
    /\ RowOutcome(rb, idx).kind = "value"
    /\ ParentIdColumnError(rb) = None
    /\ LET key       == key_of(rb, idx)
           value     == RowOutcome(rb, idx).v
           field     == parent_id_field(T, rb, idx)
           parent_id == decode(parent_id_decoder[1], field, key, value)
       IN  /\ parent_id_decoder' = Some(decoded(parent_id_decoder[1], field, key, value))
           /\ calls' = Append(calls, [idx |-> idx, field |-> field, key |-> key,
                                      value |-> value, parent_id |-> parent_id])
           /\ store' = Some([store[1] EXCEPT !.attribute_by_ids =
                                insert(store[1].attribute_by_ids, parent_id, key, value)])
    /\ idx' = idx + 1
    /\ UNCHANGED <<T, rb, pc, result, lookups, other>>

\* line 158
ReturnOk ==
    /\ pc = "loop"
    /\ idx > Len(rb.rows)
    /\ pc' = "ok"
    /\ result' = Some(Ok(store[1]))
    /\ store' = None
    /\ UNCHANGED <<T, rb, idx, parent_id_decoder, calls, lookups, other>>

TryFrom ==
    \/ OpenFails
    \/ Open
    \/ RowFails
    \/ RowSkipped
    \/ RowWithoutParentId
    \/ RowInserted
    \/ ReturnOk

----------------------------------------------------------------------------
(* try_from as a function of the batch: the state of one call, the state    *)
(* after its next step, and the state in which it ends.                     *)

Start(t, b) ==
    [T |-> t, rb |-> b, pc |-> "start", idx |-> 1, store |-> None,
     parent_id_decoder |-> None, result |-> None, calls |-> <<>>]

try_from_step(s) ==
    LET fail(e) == [s EXCEPT !.pc = "err", !.result = Some(Err(e)), !.store = None]
    IN  CASE s.pc = "start" ->
                IF OpenError(s.rb) # None THEN fail(OpenError(s.rb)[1])
                ELSE [s EXCEPT !.pc = "loop",
                               !.store = Some(default_store(s.T)),
                               !.parent_id_decoder = Some(new_decoder(s.T))]
          [] s.pc = "loop" /\ s.idx > Len(s.rb.rows) ->
                [s EXCEPT !.pc = "ok", !.result = Some(Ok(s.store[1])), !.store = None]
          [] s.pc = "loop" /\ s.idx <= Len(s.rb.rows) ->
                LET outcome == RowOutcome(s.rb, s.idx)
                IN  CASE outcome.kind = "err"  -> fail(outcome.v)
                      [] outcome.kind = "skip" -> [s EXCEPT !.idx = s.idx + 1]
                      [] outcome.kind = "value" ->
                            IF ParentIdColumnError(s.rb) # None
                            THEN fail(ParentIdColumnError(s.rb)[1])
                            ELSE LET key       == key_of(s.rb, s.idx)
                                     value     == outcome.v
                                     field     == parent_id_field(s.T, s.rb, s.idx)
                                     parent_id == decode(s.parent_id_decoder[1], field, key, value)
                                 IN  [s EXCEPT
                                        !.parent_id_decoder =
                                            Some(decoded(s.parent_id_decoder[1], field, key, value)),
                                        !.calls = Append(s.calls,
                                            [idx |-> s.idx, field |-> field, key |-> key,
                                             value |-> value, parent_id |-> parent_id]),
                                        !.store = Some([s.store[1] EXCEPT !.attribute_by_ids =
                                            insert(s.store[1].attribute_by_ids, parent_id, key, value)]),
                                        !.idx = s.idx + 1]
          [] OTHER -> s

RECURSIVE try_from_end(_)
try_from_end(s) == IF s.pc \in {"ok", "err"} THEN s ELSE try_from_end(try_from_step(s))

\* what try_from returns for the batch b
try_from(t, b) == try_from_end(Start(t, b)).result

----------------------------------------------------------------------------
(* A second try_from, on a batch of its own, that runs while the first one  *)
(* does: every call has its own store (line 75), its own decoder (line 99)  *)
(* and its own row index (line 101).                                        *)

InitTwo ==
    /\ T \in IdTypes
    /\ rb \in BatchesOf(Shapes, TwoRows(T), MaxCellRows)
    /\ pc = "start"
    /\ idx = 1
    /\ store = None
    /\ parent_id_decoder = None
    /\ result = None
    /\ calls = <<>>
    /\ lookups = <<>>
    /\ other \in UNION {{Some(Start(t, b)) : b \in BatchesOf({WellFormed}, OtherRows(t), MaxCellRows)} :
                           t \in IdTypes}

\* faulty variant: the decoder is kept per id type and not per call, so that two
\* calls for the same id type use one decoder
OtherStep_shared_decoder ==
    /\ other # None
    /\ other[1].pc \notin {"ok", "err"}
    /\ LET shared == other[1].T = T /\ parent_id_decoder # None /\ other[1].parent_id_decoder # None
            s      == IF shared THEN [other[1] EXCEPT !.parent_id_decoder = parent_id_decoder]
                      ELSE other[1]
        IN  /\ other' = Some(try_from_step(s))
            /\ parent_id_decoder' = IF shared THEN try_from_step(s).parent_id_decoder
                                    ELSE parent_id_decoder
    /\ UNCHANGED <<T, rb, pc, idx, store, result, calls, lookups>>

\* a step of the second try_from
OtherStep ==
    /\ other # None
    /\ other[1].pc \notin {"ok", "err"}
    /\ other' = Some(try_from_step(other[1]))
    /\ UNCHANGED <<T, rb, pc, idx, store, parent_id_decoder, result, calls, lookups>>

----------------------------------------------------------------------------
(* The lookups of the consumer that owns the returned store. *)

Returned == result[1].v

CanLookup == pc = "ok" /\ Len(lookups) < MaxLookups

Lookup(op, arg, out) == [op |-> op, arg |-> arg, out |-> out]

\* in place of what a call returns, when it panics instead
Panicked == <<"panicked", "attempt to add with overflow">>

\* `self.last_id += delta` overflows in a build with overflow checks (the
\* default of debug and test builds): the addition panics
AttributeByDeltaIdPanics(delta) ==
    /\ CanLookup
    /\ Overflows(Returned.last_id, delta)
    /\ pc' = "panic"
    /\ lookups' = Append(lookups, Lookup("attribute_by_delta_id", delta, Panicked))
    /\ UNCHANGED <<T, rb, idx, store, parent_id_decoder, result, calls, other>>

\* without overflow checks (the default of release builds) the addition wraps
AttributeByDeltaId(delta) ==
    /\ CanLookup
    /\ LET st == [Returned EXCEPT !.last_id = WrappingAdd(Returned.last_id, delta)]
       IN  /\ result' = Some(Ok(st))
           /\ lookups' = Append(lookups, Lookup("attribute_by_delta_id", delta, get(st, st.last_id)))
    /\ UNCHANGED <<T, rb, pc, idx, store, parent_id_decoder, calls, other>>

\* faulty variant: the direct lookup remembers the id it looked up
AttributeById_moves_cursor(id) ==
    /\ pc = "ok" /\ Len(lookups) < MaxLookups
    /\ result' = Some(Ok([Returned EXCEPT !.last_id = id]))
    /\ lookups' = Append(lookups, Lookup("attribute_by_id", id, get(Returned, id)))
    /\ UNCHANGED <<T, rb, pc, idx, store, parent_id_decoder, calls, other>>

AttributeById(id) ==
    /\ CanLookup
    /\ lookups' = Append(lookups, Lookup("attribute_by_id", id, get(Returned, id)))
    /\ UNCHANGED <<T, rb, pc, idx, store, parent_id_decoder, result, calls, other>>

Next ==
    \/ TryFrom
    \/ \E delta \in Deltas(T) : AttributeByDeltaIdPanics(delta)
    \/ \E delta \in Deltas(T) : AttributeByDeltaId(delta)
    \/ \E id \in Ids(T) : AttributeById(id)

Spec == Init /\ [][Next]_vars

SpecDecode == InitDecode /\ [][TryFrom]_vars

SpecNull == InitNull /\ [][TryFrom]_vars

SpecTags == InitTags /\ [][TryFrom]_vars

SpecDict == InitDict /\ [][TryFrom]_vars

\* two calls of try_from, their steps interleaved in every order
NextTwo ==
    \/ TryFrom
    \/ OtherStep

SpecTwo == InitTwo /\ [][NextTwo]_vars

SpecStructured == InitStructured /\ [][TryFrom]_vars

----------------------------------------------------------------------------
(* What the rows of the batch are, read off the cells. *)

RowIds == 1..Len(rb.rows)

Cells(i, name) == IF rb.cols[name] = "absent" THEN None ELSE rb.rows[i][name]

TagByte(i) == IF Cells(i, "type") = None THEN 0 ELSE Cells(i, "type")[1]

BadTag(i) == TagByte(i) \notin 0..7

Structured(i) == TagByte(i) \in {5, 6}

MalformedPayload(i) ==
    /\ Structured(i)
    /\ Cells(i, "ser") # None
    /\ ~decode_pcommon_val(Cells(i, "ser")[1]).ok

IsSkipped(i) ==
    \/ TagByte(i) = 0
    \/ /\ Structured(i)
       /\ \/ Cells(i, "ser") = None
          \/ /\ decode_pcommon_val(Cells(i, "ser")[1]).ok
             /\ decode_pcommon_val(Cells(i, "ser")[1]).v = None

\* the row has a value: it is neither skipped nor rejected
HasValue(i) == ~BadTag(i) /\ ~IsSkipped(i) /\ ~MalformedPayload(i)

ParentIdReadable == rb.cols["parent_id"] \notin {"absent", "malformed"}

\* the row raises a fatal condition of its own
RaisesFatal(i) == BadTag(i) \/ MalformedPayload(i) \/ (HasValue(i) /\ ~ParentIdReadable)

\* the error of that fatal condition
FatalOf(i) ==
    CASE BadTag(i)           -> UnrecognizedAttributeValueType(TagByte(i))
      [] MalformedPayload(i) -> decode_pcommon_val(Cells(i, "ser")[1]).v
      [] rb.cols["parent_id"] = "absent" -> ColumnNotFound("parent_id")
      [] OTHER               -> MalformedColumn("parent_id")

FatalRows == {i \in RowIds : RaisesFatal(i)}

FirstFatal == CHOOSE i \in FatalRows : \A j \in FatalRows : i <= j

Opened == OpenError(rb) = None

ReturnedOk == result # None /\ result[1].ok

ReturnedErr(e) == result # None /\ ~result[1].ok /\ result[1].v = e

\* the calls of the decoder that resolved to p with key k
CallsFor(p, k) == {n \in 1..Len(calls) : calls[n].parent_id = p /\ calls[n].key = k}

CallsOf(p) == {n \in 1..Len(calls) : calls[n].parent_id = p}

ParentIds == {calls[n].parent_id : n \in 1..Len(calls)}

Keys == {calls[n].key : n \in 1..Len(calls)}

Min(S) == CHOOSE n \in S : \A m \in S : n <= m

Max(S) == CHOOSE n \in S : \A m \in S : n >= m

\* the position at which k was first appended to the bucket of p: the number
\* of distinct keys that resolved to p up to the first call with k
FirstPosition(p, k) ==
    Cardinality({calls[n].key : n \in {m \in CallsOf(p) : m <= Min(CallsFor(p, k))}})

\* the value of a row that has one, read off the cells
ValueOfRow(i) ==
    CASE TagByte(i) = 1 -> StringValue(unwrap_or(Cells(i, "str"), ""))
      [] TagByte(i) = 2 -> IntValue(unwrap_or(Cells(i, "int"), "0"))
      [] TagByte(i) = 3 -> DoubleValue(unwrap_or(Cells(i, "double"), "0.0"))
      [] TagByte(i) = 4 -> BoolValue(unwrap_or(Cells(i, "bool"), "false"))
      [] TagByte(i) = 7 -> BytesValue(unwrap_or(Cells(i, "bytes"), ""))
      [] OTHER          -> decode_pcommon_val(Cells(i, "ser")[1]).v[1]

\* the decoder after the first n calls made to it
RECURSIVE DecoderAfter(_)
DecoderAfter(n) ==
    IF n = 0 THEN new_decoder(T)
    ELSE decoded(DecoderAfter(n - 1), calls[n].field, calls[n].key, calls[n].value)

Bucket(p) == Returned.attribute_by_ids[p]

WithKey(vec, k) == {n \in 1..Len(vec) : vec[n].key = k}

----------------------------------------------------------------------------
(* C1. Dedup-overwrite: when two or more rows with a value resolve to the   *)
(* same parent id p with the same key k, the store a successful decode      *)
(* returns holds in the bucket of p exactly one entry with key k, at the    *)
(* position at which k was first appended for p, and its value is the value *)
(* of the last of those rows, whatever the types of the values.             *)
C1_DedupOverwrite ==
    pc = "ok" =>
        \A p \in ParentIds, k \in Keys :
            Cardinality(CallsFor(p, k)) >= 2 =>
                /\ p \in DOMAIN Returned.attribute_by_ids
                /\ WithKey(Bucket(p), k) = {FirstPosition(p, k)}
                /\ Bucket(p)[FirstPosition(p, k)].value =
                       Some(AnyValue(Some(calls[Max(CallsFor(p, k))].value)))

\* a Str row and a later Int row with the same key resolve to the same parent
\* id, another key was appended between them, and the decode has returned
C1_Witness ==
    /\ pc = "ok"
    /\ \E p \in ParentIds, k \in Keys :
        /\ Cardinality(CallsFor(p, k)) >= 2
        /\ calls[Min(CallsFor(p, k))].value.t = "StringValue"
        /\ calls[Max(CallsFor(p, k))].value.t = "IntValue"
        /\ \E m \in CallsOf(p) :
            Min(CallsFor(p, k)) < m /\ m < Max(CallsFor(p, k)) /\ calls[m].key # k
        /\ FirstPosition(p, k) = 1
        /\ Len(Bucket(p)) = 2

(* C2. Error atomicity: try_from returns nothing before it ends; it returns *)
(* Ok only when no accessor and no row raised a fatal condition, and then   *)
(* every row has been gone through and every row with a value decoded; when *)
(* a fatal condition occurs it returns one error and the store built from   *)
(* the earlier rows is dropped.                                             *)
C2_ErrorAtomicity ==
    /\ pc \in {"start", "loop"} => result = None
    /\ pc = "err" => result # None /\ ~result[1].ok /\ store = None
    /\ pc = "ok" =>
        /\ ReturnedOk /\ store = None
        /\ idx = Len(rb.rows) + 1
        /\ {calls[n].idx : n \in 1..Len(calls)} = {i \in RowIds : HasValue(i)}
    /\ (~Opened \/ FatalRows # {}) => ~ReturnedOk

\* a row failed after earlier rows had put entries into the store
C2_Witness ==
    /\ pc = "err"
    /\ Len(calls) >= 2
    /\ FatalRows # {}

(* C3. Bucket existence: in the store a successful decode returns, a bucket *)
(* exists for p exactly when a row with a value resolved to p; the skipped  *)
(* rows (Empty, Map/Slice without payload or with a payload decoded to no   *)
(* value) are not resolved, and no bucket is empty.                         *)
C3_BucketExistence ==
    pc = "ok" =>
        /\ DOMAIN Returned.attribute_by_ids = ParentIds
        /\ {calls[n].idx : n \in 1..Len(calls)} = {i \in RowIds : HasValue(i)}
        /\ \A p \in DOMAIN Returned.attribute_by_ids : Len(Bucket(p)) >= 1

\* an Empty row and a Slice row whose payload decodes to no value carry a
\* parent id for which the returned store, not empty, has no bucket
C3_Witness ==
    /\ pc = "ok"
    /\ ParentIds # {}
    /\ \E i, j \in RowIds :
        /\ TagByte(i) = 0
        /\ Structured(j) /\ Cells(j, "ser") # None /\ IsSkipped(j)
        /\ Cells(i, "parent_id")[1] \notin DOMAIN Returned.attribute_by_ids
        /\ Cells(j, "parent_id")[1] \notin DOMAIN Returned.attribute_by_ids

(* C4. Missing parent-id column: the decode of every batch without a        *)
(* parent-id column, its other columns well-formed, fails with              *)
(* ColumnNotFound naming the parent-id column.                              *)
C4_MissingParentIdColumn ==
    (/\ pc \in {"ok", "err"}
     /\ rb.cols["parent_id"] = "absent"
     /\ \A c \in Columns \ {"parent_id"} : rb.cols[c] = "plain")
        => ReturnedErr(ColumnNotFound("parent_id"))

(* C6. First fatal condition in row order: the rows are gone through in     *)
(* ascending order; while the loop runs no row before the current one has   *)
(* raised a fatal condition; the decode fails at the first row that raises  *)
(* one (unrecognized tag, rejected payload, parent-id column missing or     *)
(* malformed for a row with a value), returns the error of that row, and    *)
(* goes no further.                                                         *)
C6_FirstFatal ==
    Opened =>
        /\ pc = "loop" => \A i \in RowIds : i < idx => ~RaisesFatal(i)
        /\ pc = "ok" => FatalRows = {}
        /\ pc = "err" =>
            /\ FatalRows # {}
            /\ idx = FirstFatal
            /\ ReturnedErr(FatalOf(FirstFatal))
            /\ \A n \in 1..Len(calls) : calls[n].idx < FirstFatal
        /\ \A n, m \in 1..Len(calls) : n < m => calls[n].idx < calls[m].idx

\* the decode has failed at the second row of a batch in which a later row
\* raises another fatal condition
C6_Witness ==
    /\ pc = "err"
    /\ Opened
    /\ FirstFatal = 2
    /\ \E j \in FatalRows : j > FirstFatal /\ FatalOf(j) # FatalOf(FirstFatal)

(* C7. Fatal aggregation: when a row of the batch has a type tag outside    *)
(* 0..7 and no other row raises a fatal condition, the decode fails with    *)
(* UnrecognizedAttributeValueType carrying that byte, wherever the row is.  *)
C7_FatalAggregation ==
    (pc \in {"ok", "err"} /\ Opened) =>
        \A i \in RowIds :
            (BadTag(i) /\ \A j \in RowIds \ {i} : ~RaisesFatal(j)) =>
                ReturnedErr(UnrecognizedAttributeValueType(TagByte(i)))

\* the decode has ended on a batch whose second row has tag 99, between two
\* rows that have a value
C7_Witness ==
    /\ pc \in {"ok", "err"}
    /\ Opened /\ ParentIdReadable
    /\ Len(rb.rows) = 3
    /\ TagByte(2) = 99
    /\ HasValue(1) /\ HasValue(3)

(* C8. Resolver call protocol: one decoder is made, when the accessors have *)
(* been opened; decode is called exactly once for every row gone through    *)
(* that has a value, in ascending row order, with the parent-id field, the  *)
(* key and the value of that row, each call on the state the call before    *)
(* left; it is not called for a skipped row.                                *)
C8_ResolverProtocol ==
    /\ parent_id_decoder = None <=> (pc = "start" \/ ~Opened)
    /\ parent_id_decoder # None => parent_id_decoder[1] = DecoderAfter(Len(calls))
    /\ {calls[n].idx : n \in 1..Len(calls)} =
           {i \in RowIds : i < idx /\ HasValue(i) /\ ParentIdReadable}
    /\ \A n, m \in 1..Len(calls) : n < m => calls[n].idx < calls[m].idx
    /\ \A n \in 1..Len(calls) :
        /\ calls[n].field = unwrap_or(Cells(calls[n].idx, "parent_id"), Zero(T))
        /\ calls[n].key = unwrap_or(Cells(calls[n].idx, "key"), "")
        /\ calls[n].value = ValueOfRow(calls[n].idx)
        /\ calls[n].parent_id =
               decode(DecoderAfter(n - 1), calls[n].field, calls[n].key, calls[n].value)

\* two rows with the same key and value, a skipped row between them: the
\* second call resolved its field as a delta to the first
C8_Witness ==
    /\ pc = "ok"
    /\ Len(rb.rows) = 3
    /\ IsSkipped(2)
    /\ Len(calls) = 2
    /\ calls[2].parent_id # calls[2].field

----------------------------------------------------------------------------
(* The lookups. *)

IsDelta(l) == l.op = "attribute_by_delta_id"

Returning(l) == l.out # Panicked

LastLookup == lookups[Len(lookups)]

\* a lookup call is made in this step
Called == pc = "ok" /\ Len(lookups') = Len(lookups) + 1

\* the sum of the arguments of the first n calls of ds, modulo the id width
RECURSIVE SumTo(_, _)
SumTo(ds, n) == IF n = 0 THEN Zero(T) ELSE WrappingAdd(SumTo(ds, n - 1), ds[n].arg)

\* every call of ds set the cursor to the sum of the deltas so far and
\* returned the bucket of the store at that id
Accumulated(ds) ==
    /\ Returned.last_id = SumTo(ds, Len(ds))
    /\ \A n \in 1..Len(ds) : ds[n].out = get(Returned, SumTo(ds, n))

(* C5. Delta wraparound: attribute_by_delta_id never fails or aborts; with  *)
(* the cursor at the maximum id of T (65535, 2^32 - 1) and delta 1 it sets  *)
(* the cursor to 0 and returns the bucket of id 0.                          *)
C5_DeltaWraparound ==
    [][(Called /\ IsDelta(LastLookup')) =>
        /\ pc' = "ok"
        /\ (Returned.last_id = MaxId(T) /\ LastLookup'.arg = Id(T, 1)) =>
            /\ Returned'.last_id = Zero(T)
            /\ LastLookup'.out = get(Returned, Zero(T))]_vars

(* C9. Cursor frame condition: last_id is 0 in the store under construction *)
(* and in the store try_from returns; afterwards only attribute_by_delta_id *)
(* changes it, attribute_by_id changes nothing of the store, and no lookup  *)
(* changes the bucket map; so the delta calls that return have set the      *)
(* cursor to, and returned the buckets at, the sums of their own deltas,    *)
(* whatever attribute_by_id calls were made between them.                   *)
C9_Frame ==
    /\ store # None => store[1].last_id = Zero(T)
    /\ (pc = "ok" /\ lookups = <<>>) => Returned.last_id = Zero(T)
    /\ pc \in {"ok", "panic"} =>
        Accumulated(SelectSeq(lookups, LAMBDA l : IsDelta(l) /\ Returning(l)))

C9_Step ==
    /\ pc = "ok" => result'[1].ok /\ Returned'.attribute_by_ids = Returned.attribute_by_ids
    /\ (pc = "ok" /\ Returned'.last_id # Returned.last_id) => (Called /\ IsDelta(LastLookup'))
    /\ (Called /\ ~IsDelta(LastLookup')) => result' = result

\* C9: the cursor frame condition, in every state and over every step
C9_CursorFrame == []C9_Frame /\ [][C9_Step]_vars

\* a direct lookup was made between two delta lookups that moved the cursor
\* to an id with a bucket
C9_Witness ==
    /\ pc = "ok"
    /\ Len(lookups) = 3
    /\ IsDelta(lookups[1]) /\ ~IsDelta(lookups[2]) /\ IsDelta(lookups[3])
    /\ lookups[2].arg # Returned.last_id
    /\ lookups[3].out # None
    /\ Returned.last_id # Zero(T)

(* C10. Delta lookup accumulates: for every sequence of                     *)
(* attribute_by_delta_id calls, each call sets the cursor to the previous   *)
(* cursor plus its delta and returns what attribute_by_id returns for the   *)
(* new cursor, also when that is None.                                      *)
C10_DeltaAccumulates ==
    pc \in {"ok", "panic"} => Accumulated(SelectSeq(lookups, IsDelta))

----------------------------------------------------------------------------
(* Vocabulary of the claims about the order of the entries. *)

\* the keys of the first n decoder calls that resolved to p, each key once, in
\* the order of its first call
RECURSIVE KeyOrder(_, _)
KeyOrder(p, n) ==
    IF n = 0 THEN <<>>
    ELSE LET ks == KeyOrder(p, n - 1)
         IN  IF calls[n].parent_id = p /\ \A m \in 1..Len(ks) : ks[m] # calls[n].key
             THEN Append(ks, calls[n].key)
             ELSE ks

KeysOf(vec) == [n \in 1..Len(vec) |-> vec[n].key]

\* the store under construction, and after a successful return the store returned
Built == IF pc = "ok" THEN Some(Returned) ELSE store

C11_Order ==
    Built # None =>
        /\ ParentIds \subseteq DOMAIN Built[1].attribute_by_ids
        /\ \A p \in DOMAIN Built[1].attribute_by_ids :
               KeysOf(Built[1].attribute_by_ids[p]) = KeyOrder(p, Len(calls))

C11_Step ==
    (store # None /\ store' # None) =>
        \A p \in DOMAIN store[1].attribute_by_ids :
            /\ p \in DOMAIN store'[1].attribute_by_ids
            /\ Len(store'[1].attribute_by_ids[p]) >= Len(store[1].attribute_by_ids[p])
            /\ \A n \in 1..Len(store[1].attribute_by_ids[p]) :
                   store'[1].attribute_by_ids[p][n].key = store[1].attribute_by_ids[p][n].key

(* C11. Insertion order: at every row step and in the returned store, the   *)
(* key sequence of the bucket of every parent id p is the sequence of the   *)
(* distinct keys of the rows with a value that resolved to p, in the order  *)
(* of their first occurrence; a row step leaves every entry of a bucket at  *)
(* its position and only appends at the end: no entry is removed or moved.  *)
C11_InsertionOrder == []C11_Order /\ [][C11_Step]_vars

\* three rows resolved to one parent id with keys foo, k2, foo and the bucket
\* returned lists foo before k2
C11_Witness ==
    /\ pc = "ok"
    /\ \E p \in ParentIds :
        /\ Cardinality(CallsOf(p)) = 3
        /\ [n \in 1..3 |-> calls[n].key] = <<"foo", "k2", "foo">>
        /\ KeysOf(Bucket(p)) = <<"foo", "k2">>

----------------------------------------------------------------------------
(* Vocabulary of the claims about null cells and absent columns. *)

\* the zero value of each scalar type tag
ZeroValue ==
    (1 :> StringValue("")) @@ (2 :> IntValue("0")) @@ (3 :> DoubleValue("0.0"))
    @@ (4 :> BoolValue("false")) @@ (7 :> BytesValue(""))

ScalarTags == {1, 2, 3, 4, 7}

\* the row is reached: no earlier row raises a fatal condition
Reached(i) == \A j \in 1..(i - 1) : ~RaisesFatal(j)

\* the decoder calls made for row i
CallsOfRow(i) == {n \in 1..Len(calls) : calls[n].idx = i}

\* the scalar rows whose payload cell is null or whose payload column is absent
NullScalarRows == {i \in RowIds : TagByte(i) \in ScalarTags /\ Cells(i, ScalarColumn[TagByte(i)]) = None}

NullKeyRows == {i \in RowIds : TagByte(i) \in ScalarTags /\ Cells(i, "key") = None}

----------------------------------------------------------------------------
(* Vocabulary of the claims about Map and Slice rows. *)

\* the Map and Slice rows that are reached
StructuredRowsReached == {i \in RowIds : Structured(i) /\ Reached(i)}

\* row i stopped the decode
FailedAt(i) == pc = "err" /\ idx = i

\* the entry of the store returned that the call n wrote, when no later call
\* overwrote it
StoredBy(n) ==
    LET p == calls[n].parent_id
        k == calls[n].key
    IN  n = Max(CallsFor(p, k)) =>
            \E m \in WithKey(Bucket(p), k) :
                Bucket(p)[m].value = Some(AnyValue(Some(calls[n].value)))

----------------------------------------------------------------------------
(* Vocabulary of the claim about the type tag. *)

\* the eight value types in the order of their bytes
TagNames == <<"Empty", "Str", "Int", "Double", "Bool", "Map", "Slice", "Bytes">>

\* the kind of value a row of each type with a value is decoded to
ValueKind ==
    (1 :> "StringValue") @@ (2 :> "IntValue") @@ (3 :> "DoubleValue") @@ (4 :> "BoolValue")
    @@ (5 :> "StructuredValue") @@ (6 :> "StructuredValue") @@ (7 :> "BytesValue")

----------------------------------------------------------------------------
(* Vocabulary of the claim about dictionary-encoded parent ids. *)

DictEncoded == rb.cols["parent_id"] = "dict"

\* the batch with the same parent ids in a plain column
Plain(b) ==
    [b EXCEPT !.cols["parent_id"] = "plain",
              !.rows = [i \in DOMAIN b.rows |->
                           [b.rows[i] EXCEPT !["parent_id"] =
                               IF @ = None THEN None ELSE Some(b.dict[@[1] + 1])]]]

----------------------------------------------------------------------------
(* C16. Independent decodes share no state: when two calls of try_from run  *)
(* with their steps interleaved in any order, on batches of their own and   *)
(* into stores of the same or of different id types, each returns the store *)
(* or the error it returns when it runs alone on its batch.                 *)
C16_IndependentDecodes ==
    /\ pc \in {"ok", "err"} => result = try_from(T, rb)
    /\ (other # None /\ other[1].pc \in {"ok", "err"}) =>
           other[1].result = try_from(other[1].T, other[1].rb)

\* the first decode has decoded one of its two rows and is in its loop, and the
\* second, into a store of the other id type, has decoded two rows and returned
C16_Witness ==
    /\ pc = "loop" /\ idx = 2 /\ Len(calls) = 1 /\ Len(rb.rows) = 2
    /\ other # None
    /\ other[1].T # T
    /\ other[1].pc = "ok"
    /\ Len(other[1].calls) = 2
    /\ other[1].result = try_from(other[1].T, other[1].rb)

----------------------------------------------------------------------------
(* Vocabulary of the claim about skipped rows. *)

KeptIds == {i \in RowIds : ~IsSkipped(i)}

\* the batch without its skipped rows
WithoutSkipped ==
    [rb EXCEPT !.rows = [n \in 1..Cardinality(KeptIds) |->
        rb.rows[CHOOSE i \in KeptIds : Cardinality({j \in KeptIds : j <= i}) = n]]]

\* the batch with a null parent id cell in its skipped rows
SkippedBlanked ==
    [rb EXCEPT !.rows = [i \in RowIds |->
        IF IsSkipped(i) THEN [rb.rows[i] EXCEPT !["parent_id"] = None] ELSE rb.rows[i]]]

C17_SameResult ==
    pc \in {"ok", "err"} =>
        /\ result = try_from(T, WithoutSkipped)
        /\ result = try_from(T, SkippedBlanked)

C17_Step ==
    (pc = "loop" /\ idx <= Len(rb.rows) /\ IsSkipped(idx)) =>
        /\ pc' = "loop"
        /\ idx' = idx + 1
        /\ store' = store
        /\ parent_id_decoder' = parent_id_decoder
        /\ calls' = calls

(* C17. Skipped rows are invisible: the step of try_from over a skipped row *)
(* leaves the bucket map and the decoder as they are and makes no decoder   *)
(* call; try_from returns for a batch what it returns for the batch without *)
(* its skipped rows, and what it returns when the parent id cells of the    *)
(* skipped rows are null, so that a delta in a skipped row is not added to  *)
(* the parent id of a later row.                                            *)
C17_SkippedRowsInvisible == []C17_SameResult /\ [][C17_Step]_vars

\* a skipped row with the parent id field 1 lies between two rows with the same
\* key and value, and the second of them resolved to the first one's parent id
\* plus its own field
C17_Witness ==
    /\ pc = "ok"
    /\ Len(rb.rows) = 3
    /\ IsSkipped(2)
    /\ rb.rows[2]["parent_id"] = Some(Id(T, 1))
    /\ Len(calls) = 2
    /\ calls[1].parent_id = Id(T, 1)
    /\ calls[2].field = Id(T, 1)
    /\ calls[2].parent_id = Id(T, 2)

----------------------------------------------------------------------------
\* every column but the parent id column has the array type its accessor expects
OtherColumnsWellFormed == \A c \in Columns \ {"parent_id"} : rb.cols[c] # "malformed"

(* C18. The parent id column is looked up only when a row has a value: when *)
(* the other columns are well formed and try_from has ended, a batch with   *)
(* no rows or with skipped rows only has returned an empty store, whether   *)
(* the parent id column is there or not; when the column is absent or       *)
(* malformed, that is reported at the first row that is not skipped if this *)
(* row has a value, and when this row has an unknown type tag or a payload  *)
(* the decoder rejects, the error of that row is returned instead.          *)
C18_LazyParentIdColumn ==
    (pc \in {"ok", "err"} /\ OtherColumnsWellFormed) =>
        /\ KeptIds = {} => ReturnedOk /\ DOMAIN Returned.attribute_by_ids = {}
        /\ (KeptIds # {} /\ ~ParentIdReadable) =>
               LET first == Min(KeptIds)
               IN  /\ FailedAt(first)
                   /\ calls = <<>>
                   /\ HasValue(first) =>
                          ReturnedErr(IF rb.cols["parent_id"] = "absent"
                                      THEN ColumnNotFound("parent_id")
                                      ELSE MalformedColumn("parent_id"))
                   /\ BadTag(first) => ReturnedErr(UnrecognizedAttributeValueType(TagByte(first)))
                   /\ MalformedPayload(first) =>
                          ReturnedErr(decode_pcommon_val(Cells(first, "ser")[1]).v)

\* the batch has no parent id column; its first row was skipped and ColumnNotFound
\* was returned at its second row, which has a value
C18_Witness ==
    /\ rb.cols["parent_id"] = "absent"
    /\ Len(rb.rows) = 3
    /\ IsSkipped(1)
    /\ HasValue(2)
    /\ FailedAt(2)
    /\ ReturnedErr(ColumnNotFound("parent_id"))

----------------------------------------------------------------------------
(* Vocabulary of the claim about the values of the entries. *)

\* every entry of vec has an AnyValue and the AnyValue has a value
AllHaveValues(vec) ==
    \A n \in 1..Len(vec) : vec[n].value # None /\ vec[n].value[1].value # None

\* the lookups that returned a bucket
BucketLookups == {n \in 1..Len(lookups) : Len(lookups[n].out) = 1}

(* C19. Every stored entry has a value: every entry of every bucket of a    *)
(* store try_from returned has an AnyValue with a value in it, and so has   *)
(* every entry of the store under construction between two row steps: the   *)
(* empty value find_or_append gives a new entry is overwritten in the same  *)
(* step; no bucket that attribute_by_id or attribute_by_delta_id returned   *)
(* has an entry without a value.                                            *)
C19_EveryEntryHasValue ==
    /\ store # None =>
           \A p \in DOMAIN store[1].attribute_by_ids : AllHaveValues(store[1].attribute_by_ids[p])
    /\ ReturnedOk =>
           \A p \in DOMAIN Returned.attribute_by_ids : AllHaveValues(Bucket(p))
    /\ \A n \in BucketLookups : AllHaveValues(lookups[n].out[1])

\* attribute_by_delta_id and attribute_by_id have each returned a bucket with an
\* entry of the store returned
C19_Witness ==
    /\ pc = "ok"
    /\ \E n, m \in BucketLookups :
        /\ lookups[n].op = "attribute_by_delta_id"
        /\ lookups[m].op = "attribute_by_id"
        /\ Len(lookups[n].out[1]) >= 1
        /\ Len(lookups[m].out[1]) >= 1

----------------------------------------------------------------------------
(* Vocabulary of the claim about null type cells. *)

\* the rows whose type cell is null
NullTypeRows == {i \in RowIds : rb.cols["type"] = "plain" /\ rb.rows[i]["type"] = None}

(* C20. A null type cell is read as the byte 0, Empty: when try_from has    *)
(* ended, a reached row whose type cell is null was skipped: no decoder     *)
(* call was made for it and it did not stop the decode, so it raised no     *)
(* unrecognized-value-type error; it added no entry and no bucket: a batch  *)
(* whose rows all have a null type cell returns an empty store, and the     *)
(* store returned has the buckets of the decoder calls only.                *)
C20_NullTypeIsEmpty ==
    (pc \in {"ok", "err"} /\ OtherColumnsWellFormed) =>
        /\ \A i \in NullTypeRows : Reached(i) => CallsOfRow(i) = {} /\ ~FailedAt(i)
        /\ NullTypeRows = RowIds => ReturnedOk /\ DOMAIN Returned.attribute_by_ids = {}
        /\ pc = "ok" => DOMAIN Returned.attribute_by_ids = ParentIds

\* a row with a null type cell was skipped, the Str row after it was decoded and
\* the store returned has the bucket of that row only
C20_Witness ==
    /\ pc = "ok"
    /\ Len(rb.rows) = 2
    /\ NullTypeRows = {1}
    /\ TagByte(2) = 1
    /\ Len(calls) = 1
    /\ calls[1].idx = 2
    /\ DOMAIN Returned.attribute_by_ids = {calls[1].parent_id}

====
